---- MODULE Spec2Model ----
(***************************************************************************)
(* A model of automation.py: the news-to-stream loop broadcast_loop, the   *)
(* per-item pipeline generate_assets and the synthesis fallback chain      *)
(* generate_audio_with_fallback.  External services and binaries are       *)
(* opaque: each call is a nondeterministic choice among the outcomes the   *)
(* call can have (raise, return, what it leaves on disk).  The Translator  *)
(* step, the narration script and get_news are modelled on their own, in   *)
(* SpecText, SpecScript and SpecNews.                                      *)
(***************************************************************************)
EXTENDS Integers, Sequences, FiniteSets, TLC

\* ------------------------------------------------------------- bounds
\* Most items one get_news call returns in the model.
MaxItems == 2
\* Longest provider result / title of the Translator model.
MaxText == 5
\* Most files whose os.remove fails in one cleanup.
MaxKept == 1
\* Most entries one feed holds in the get_news model.
MaxEntries == 2
\* Most links one entry holds in the get_news model.
MaxLinks == 2

\* ------------------------------------------------- program constants
\* os.path.getsize(outfile) > 100
AudioMinSize == 100
\* os.path.getsize(output_video) > 1000
VideoMinSize == 1000
\* len(translated.strip()) < 5
MinTranslatedLen == 5
\* translated.split()[:80]
WordLimit == 80
\* for entry in feed.entries[:6]
EntryLimit == 6
\* len(RSS_FEEDS)
NumFeeds == 2
\* await asyncio.sleep(2)
Cooldown == 2
\* await asyncio.sleep(60)
Backoff == 60

\* A path that does not exist (os.path.exists is False).
NoFile == -1
\* Python's None as the value of video / audio_file.
None == -1

Indices == 0 .. (MaxItems - 1)
Kinds == {"mp3", "jpg", "mp4"}
\* audio_{index}.mp3, image_{index}.jpg, segment_{index}.mp4
Path(kind, index) == <<kind, index>>
Paths == Kinds \X Indices

VARIABLES
    STREAM_KEY,      \* TRUE iff YOUTUBE_STREAM_KEY is set in the environment
    pc,              \* position of broadcast_loop (and of the call it awaits)
    items,           \* number of articles get_news returned this cycle
    i,               \* index of the item being processed
    video_segments,  \* indices of the segments appended this cycle
    video,           \* value generate_assets returned (None or the index)
    files,           \* size of each transient media file, NoFile if absent
    playlist,        \* playlist.txt: [exists, lines]
    stream,          \* the stream push process: "none", "running", or
                     \* how it exited: "exhausted", "error", "killed"
    tried,           \* engines invoked for the current item, with outcome
    rendered,        \* indices whose generate_assets returned a segment
    attempted,       \* indices generate_assets was called with this cycle
    slept,           \* time slept since get_news / generate_assets returned
    streamInvoked,   \* subprocess.run(stream_cmd) was called this cycle
    cycleEnded,      \* "no", "backoff" or "cleanup": how the last cycle ended
    calls,           \* cycle-level external calls ("feed", "stream") made
                     \* since startup, or since the cycle began; the calls
                     \* made for an item are in tried and stages
    audio_file,      \* value generate_audio_with_fallback returned
    returncode,      \* result.returncode of the current item's encode
    wrote,           \* the engine tried last wrote outfile itself
    stages,          \* stages run for the current item, with their result
    title, provider, translated,  \* Translator step: inputs and result
    script,          \* the narration script made of translated
    feed,            \* get_news: position in RSS_FEEDS
    remaining,       \* get_news: entries of the current feed still to read
    articles,        \* get_news: <<feed, entry>> of each article appended
    fetched,         \* get_news: feeds feedparser.parse was called for
    entry,           \* get_news: the entry read last
    item             \* get_news: the article appended last

vars == <<STREAM_KEY, pc, items, i, video_segments, video, files, playlist,
          stream, tried, rendered, attempted, slept,
          streamInvoked, cycleEnded, calls, audio_file, returncode,
          wrote, stages, title, provider, translated, script,
          feed, remaining, articles, fetched, entry, item>>

textVars == <<title, provider, translated, script>>
newsVars == <<feed, remaining, articles, fetched, entry, item>>
loopVars == <<STREAM_KEY, pc, items, i, video_segments, video, files,
              playlist, stream, tried, rendered, attempted,
              slept, streamInvoked, cycleEnded, calls, audio_file,
              returncode, wrote, stages>>

\* ------------------------------------------------------- file system
\* Sizes a synthesis engine can leave at outfile (around the threshold).
AudioSizes == {AudioMinSize, AudioMinSize + 1}
\* Sizes the encoder can leave at output_video (around the threshold).
VideoSizes == {VideoMinSize, VideoMinSize + 1}
\* Size of a downloaded image (f.write(img_res.content)).
ImageSize == 1
\* The call returned or raised without writing its output path.
Untouched == -2

\* The size at path p after a call that wrote w (or left it untouched).
Written(p, w) == IF w = Untouched THEN files[p] ELSE w

\* The size check with >= for >.
AudioOkLoose(size) == size # NoFile /\ size >= AudioMinSize

\* os.path.exists(outfile) and os.path.getsize(outfile) > 100
AudioOk(size) == size # NoFile /\ size > AudioMinSize

\* The size check without the return code check.
VideoOkAnyExit(rc, size) == size # NoFile /\ size > VideoMinSize

\* result.returncode == 0, then
\* os.path.exists(output_video) and os.path.getsize(output_video) > 1000
VideoOk(rc, size) == rc = 0 /\ size # NoFile /\ size > VideoMinSize

\* f.endswith((".mp4", ".mp3", ".jpg")) over os.listdir()
Transient == {p \in Paths : files[p] # NoFile}

NoFiles == [p \in Paths |-> NoFile]

\* ----------------------------------------------------- Translator step
\* Strings are sequences of characters; "a" stands for any character that
\* is not whitespace.
Chars == {"a", " "}
Texts == UNION {[1 .. n -> Chars] : n \in 0 .. MaxText}
\* translator.translate returned None.
NoText == <<"None">>
\* news_item['title'] is entry.title or "Habari Mpya": never empty.
Titles == Texts \ {<<>>}

RECURSIVE LStrip(_)
LStrip(t) == IF t # <<>> /\ Head(t) = " " THEN LStrip(Tail(t)) ELSE t

RECURSIVE RStrip(_)
RStrip(t) ==
    IF t # <<>> /\ t[Len(t)] = " " THEN RStrip(SubSeq(t, 1, Len(t) - 1))
    ELSE t

\* str.strip()
Strip(t) == LStrip(RStrip(t))

\* The fallback to the title left out.
TranslatorStepRaw(result, item_title) ==
    IF result = NoText THEN <<>> ELSE result

\* if not translated or len(translated.strip()) < 5:
\*     translated = news_item['title']
TranslatorStep(result, item_title) ==
    IF result = NoText \/ result = <<>>
       \/ Len(Strip(result)) < MinTranslatedLen
      THEN item_title
      ELSE result

\* -------------------------------------------------- narration script
\* Texts with a sentence-ending mark: "." stands for any of them.
PChars == {"a", " ", "."}
PTexts == UNION {[1 .. n -> PChars] : n \in 1 .. MaxText}

\* n words "a" separated by single spaces.
LongText(n) == [k \in 1 .. (2 * n - 1) |-> IF k % 2 = 1 THEN "a" ELSE " "]

\* The texts the script step is run on: every short text, and texts of
\* one word fewer than, exactly, and one word more than the word limit.
ScriptInputs ==
    PTexts \cup {LongText(WordLimit - 1), LongText(WordLimit),
                 LongText(WordLimit + 1),
                 LongText(WordLimit + 1) \o <<".">>}

\* The end of the first word of u, which starts with a non-space.
RECURSIVE WordEnd(_, _)
WordEnd(u, k) ==
    IF k > Len(u) \/ u[k] = " " THEN k - 1 ELSE WordEnd(u, k + 1)

\* str.split(): the maximal runs of non-whitespace, in order.
RECURSIVE Split(_)
Split(t) ==
    LET u == LStrip(t)
    IN IF u = <<>> THEN <<>>
       ELSE LET e == WordEnd(u, 1)
            IN <<SubSeq(u, 1, e)>> \o Split(SubSeq(u, e + 1, Len(u)))

\* " ".join(words)
RECURSIVE Join(_)
Join(words) ==
    IF words = <<>> THEN <<>>
    ELSE IF Len(words) = 1 THEN words[1]
    ELSE words[1] \o <<" ">> \o Join(Tail(words))

\* words[:n]
Take(words, n) == SubSeq(words, 1, IF n < Len(words) THEN n ELSE Len(words))

\* The period appended only to a text that does not end with one.
ScriptConditional(t) ==
    LET base == Join(Take(Split(t), WordLimit))
    IN IF base # <<>> /\ base[Len(base)] = "." THEN base
       ELSE base \o <<".">>

\* script = " ".join(translated.split()[:80]) + "."
Script(t) == Join(Take(Split(t), WordLimit)) \o <<".">>

\* ------------------------------------------------------------ Init
\* No entry read, no article appended.
NoEntry == [title |-> "none", summary |-> "none", media |-> "none",
            haslinks |-> FALSE, links |-> <<>>]
NoItem == [title |-> "none", summary |-> "none",
           image |-> [src |-> "none", k |-> 0]]

\* The variables of the Translator and script steps, not in use.
TextIdle ==
    /\ title = <<>>
    /\ provider = <<>>
    /\ translated = <<>>
    /\ script = <<>>

\* The variables of get_news, not in use.
NewsIdle ==
    /\ feed = 0
    /\ remaining = 0
    /\ articles = <<>>
    /\ fetched = <<>>
    /\ entry = NoEntry
    /\ item = NoItem

Init ==
    /\ STREAM_KEY \in BOOLEAN
    /\ pc = "start"
    /\ items = 0
    /\ i = 0
    /\ video_segments = <<>>
    /\ video = None
    /\ files = NoFiles
    /\ playlist \in {[exists |-> FALSE, lines |-> <<>>],
                     [exists |-> TRUE, lines |-> <<0>>]}
    /\ stream = "none"
    /\ tried = <<>>
    /\ rendered = <<>>
    /\ attempted = <<>>
    /\ slept = 0
    /\ streamInvoked = FALSE
    /\ cycleEnded = "no"
    /\ calls = {}
    /\ audio_file = None
    /\ returncode = None
    /\ wrote = FALSE
    /\ stages = <<>>
    /\ TextIdle
    /\ NewsIdle

\* ------------------------------------------------- broadcast_loop
\* The credential check left out.
KeyMissingIgnored == FALSE

\* if not STREAM_KEY
KeyMissing == ~STREAM_KEY

\* if not STREAM_KEY: return; then remove an old playlist.txt.
Start ==
    /\ pc = "start"
    /\ IF KeyMissing
         THEN /\ pc' = "returned"
              /\ UNCHANGED playlist
         ELSE \E raised \in BOOLEAN :
                IF raised /\ playlist.exists
                  THEN /\ pc' = "crashed"
                       /\ UNCHANGED playlist
                  ELSE /\ pc' = "fetch"
                       /\ playlist' = [exists |-> FALSE, lines |-> <<>>]
    /\ UNCHANGED <<STREAM_KEY, items, i, video_segments, video, files, stream,
                   tried, rendered, attempted, slept, streamInvoked,
                   cycleEnded, calls, audio_file, returncode>>
    /\ UNCHANGED <<wrote, stages>>
    /\ UNCHANGED textVars
    /\ UNCHANGED newsVars

\* items = get_news(); video_segments = []
GetNews ==
    /\ pc = "fetch"
    /\ \E n \in 0 .. MaxItems : items' = n
    /\ video_segments' = <<>>
    /\ i' = 0
    /\ pc' = "for"
    /\ calls' = {"feed"}
    /\ rendered' = <<>>
    /\ attempted' = <<>>
    /\ slept' = 0
    /\ streamInvoked' = FALSE
    /\ cycleEnded' = "no"
    /\ UNCHANGED <<STREAM_KEY, video, files, playlist, stream, tried,
                   audio_file, returncode>>
    /\ UNCHANGED <<wrote, stages>>
    /\ UNCHANGED textVars
    /\ UNCHANGED newsVars

\* The for loop left at the first item that yields no segment.
HasNextUnlessFailed == i < items /\ (i = 0 \/ video # None)

\* for i, item in enumerate(items): another item is left.
HasNext == i < items

\* for i, item in enumerate(items): video = await generate_assets(item, i)
ForNext ==
    /\ pc = "for"
    /\ IF HasNext
         THEN /\ pc' = "translate"
              /\ attempted' = Append(attempted, i)
         ELSE /\ pc' = "check"
              /\ UNCHANGED attempted
    /\ returncode' = None
    /\ UNCHANGED <<STREAM_KEY, items, i, video_segments, video, files,
                   playlist, stream, tried, rendered, slept, streamInvoked,
                   cycleEnded, calls, audio_file>>
    /\ UNCHANGED <<wrote, stages>>
    /\ UNCHANGED textVars
    /\ UNCHANGED newsVars

\* An entry of the stage log: the call made and how it ended.
Stage(name, result) == [stage |-> name, result |-> result]

\* How a call that can only raise or return ended.
Outcome(raised) == IF raised THEN "raise" ELSE "ok"

\* generate_assets returns v to the loop (None from the except clause too).
Return(v) ==
    /\ video' = v
    /\ pc' = "ret"
    /\ slept' = 0
    /\ rendered' = IF v # None THEN Append(rendered, v) ELSE rendered
    /\ tried' = <<>>
    /\ audio_file' = None

\* ------------------------------------------------- generate_assets
\* translated = translator.translate(news_item['summary']); a raise is caught
\* by the except clause of generate_assets, which returns None.
Translate ==
    /\ pc = "translate"
    /\ UNCHANGED calls
    /\ \E raised \in BOOLEAN :
         /\ stages' = Append(stages, Stage("translate", Outcome(raised)))
         /\ IF raised
              THEN Return(None)
              ELSE /\ pc' = "tts1"
                   /\ UNCHANGED <<video, slept, rendered, tried,
                                  audio_file>>
    /\ UNCHANGED <<STREAM_KEY, items, i, video_segments, files, playlist,
                   stream, attempted, streamInvoked, cycleEnded, returncode>>
    /\ UNCHANGED wrote
    /\ UNCHANGED textVars
    /\ UNCHANGED newsVars

\* The position of the try block of engine k.
TtsPc(k) == IF k = 1 THEN "tts1" ELSE IF k = 2 THEN "tts2" ELSE "tts3"

\* What the attempt log records of an engine that raised or returned
\* leaving `size` at outfile: whether it raised, left no file, or left a
\* file of at most 100 bytes.
EngineFailed(raised, size) ==
    raised \/ size = NoFile \/ size <= AudioMinSize

\* One try block of generate_audio_with_fallback: engine k saves to outfile
\* (or raises), then the size check decides between return outfile and
\* falling through to the next try block, or to return None after the last.
TryEngine(k) ==
    /\ pc = TtsPc(k)
    /\ UNCHANGED calls
    /\ \E raised \in BOOLEAN, w \in AudioSizes \cup {Untouched} :
         LET outfile == Path("mp3", i)
             size == Written(outfile, w)
         IN /\ files' = [files EXCEPT ![outfile] = size]
            /\ wrote' = (w # Untouched)
            /\ tried' = Append(tried, [engine |-> k,
                                       failed |-> EngineFailed(raised, size)])
            /\ IF ~raised /\ AudioOk(size)
                 THEN /\ audio_file' = i
                      /\ pc' = "audio"
                 ELSE /\ audio_file' = None
                      /\ pc' = IF k < 3 THEN TtsPc(k + 1) ELSE "audio"
    /\ UNCHANGED <<STREAM_KEY, items, i, video_segments, video, playlist,
                   stream, rendered, attempted, slept, streamInvoked,
                   cycleEnded, returncode>>
    /\ UNCHANGED stages
    /\ UNCHANGED textVars
    /\ UNCHANGED newsVars

Tts1 == TryEngine(1)
Tts2 == TryEngine(2)
Tts3 == TryEngine(3)

\* The check of the synthesizer's result left out.
AudioMissingIgnored == FALSE

\* if not audio_file
AudioMissing == audio_file = None

\* if not audio_file: raise Exception("All audio engines failed.")
CheckAudio ==
    /\ pc = "audio"
    /\ stages' = Append(stages,
                         Stage("tts", IF tried[Len(tried)].failed
                                        THEN "failed" ELSE "ok"))
    /\ IF AudioMissing
         THEN Return(None)
         ELSE /\ pc' = "download"
              /\ UNCHANGED <<video, slept, rendered, tried, audio_file>>
    /\ UNCHANGED <<STREAM_KEY, items, i, video_segments, files, playlist,
                   stream, attempted, streamInvoked, cycleEnded, calls,
                   returncode>>
    /\ wrote' = FALSE
    /\ UNCHANGED textVars
    /\ UNCHANGED newsVars

\* img_res = requests.get(news_item['image'], timeout=20), written to
\* img_file whatever the response status; only a raise fails the item.
Download ==
    /\ pc = "download"
    /\ UNCHANGED calls
    /\ \E outcome \in {"raise", "ok", "error_response"} :
         /\ stages' = Append(stages, Stage("image", outcome))
         /\ IF outcome = "raise"
              THEN /\ Return(None)
                   /\ UNCHANGED files
              ELSE /\ files' = [files EXCEPT ![Path("jpg", i)] = ImageSize]
                   /\ pc' = "probe"
                   /\ UNCHANGED <<video, slept, rendered, tried,
                                  audio_file>>
    /\ UNCHANGED <<STREAM_KEY, items, i, video_segments, playlist, stream,
                   attempted, streamInvoked, cycleEnded, returncode>>
    /\ UNCHANGED wrote
    /\ UNCHANGED textVars
    /\ UNCHANGED newsVars

\* duration = subprocess.check_output(duration_cmd): raises on a non-zero
\* exit of ffprobe or when it cannot be launched.
Probe ==
    /\ pc = "probe"
    /\ UNCHANGED calls
    /\ \E raised \in BOOLEAN :
         /\ stages' = Append(stages, Stage("ffprobe", Outcome(raised)))
         /\ IF raised
              THEN Return(None)
              ELSE /\ pc' = "encode"
                   /\ UNCHANGED <<video, slept, rendered, tried,
                                  audio_file>>
    /\ UNCHANGED <<STREAM_KEY, items, i, video_segments, files, playlist,
                   stream, attempted, streamInvoked, cycleEnded, returncode>>
    /\ UNCHANGED wrote
    /\ UNCHANGED textVars
    /\ UNCHANGED newsVars

\* result = subprocess.run(ffmpeg_cmd, ...), the return code check and the
\* size check of output_video.
Encode ==
    /\ pc = "encode"
    /\ UNCHANGED calls
    /\ \E raised \in BOOLEAN, rc \in {0, 1}, w \in VideoSizes \cup {Untouched} :
         LET output_video == Path("mp4", i)
             size == Written(output_video, w)
         IN /\ stages' = Append(stages, Stage("ffmpeg", Outcome(raised)))
            /\ IF raised
                 THEN /\ Return(None)
                      /\ UNCHANGED <<files, returncode>>
                 ELSE /\ files' = [files EXCEPT ![output_video] = size]
                      /\ returncode' = rc
                      /\ Return(IF VideoOk(rc, size) THEN i ELSE None)
    /\ UNCHANGED <<STREAM_KEY, items, i, video_segments, playlist, stream,
                   attempted, streamInvoked, cycleEnded>>
    /\ UNCHANGED wrote
    /\ UNCHANGED textVars
    /\ UNCHANGED newsVars

\* ------------------------------------------ broadcast_loop, continued
\* if video: video_segments.append(video); await asyncio.sleep(2)
AppendVideo ==
    /\ pc = "ret"
    /\ IF video # None
         THEN /\ video_segments' = Append(video_segments, video)
              /\ pc' = "cooldown"
              /\ UNCHANGED i
         ELSE /\ i' = i + 1
              /\ pc' = "for"
              /\ UNCHANGED video_segments
    /\ UNCHANGED <<STREAM_KEY, items, video, files, playlist, stream, tried,
                   rendered, attempted, slept, streamInvoked, cycleEnded,
                   calls, audio_file, returncode>>
    /\ stages' = <<>>
    /\ UNCHANGED wrote
    /\ UNCHANGED textVars
    /\ UNCHANGED newsVars

\* await asyncio.sleep(2) returns; the for loop takes the next item.
CooldownSleep ==
    /\ pc = "cooldown"
    /\ slept' = slept + Cooldown
    /\ i' = i + 1
    /\ pc' = "for"
    /\ UNCHANGED <<STREAM_KEY, items, video_segments, video, files, playlist,
                   stream, tried, rendered, attempted, streamInvoked,
                   cycleEnded, calls, audio_file, returncode>>
    /\ UNCHANGED <<wrote, stages>>
    /\ UNCHANGED textVars
    /\ UNCHANGED newsVars

\* if not video_segments: ... else the manifest is written.
CheckSegments ==
    /\ pc = "check"
    /\ pc' = IF video_segments = <<>> THEN "backoff" ELSE "write"
    /\ UNCHANGED <<STREAM_KEY, items, i, video_segments, video, files,
                   playlist, stream, tried, rendered, attempted, slept,
                   streamInvoked, cycleEnded, calls, audio_file, returncode>>
    /\ UNCHANGED <<wrote, stages>>
    /\ UNCHANGED textVars
    /\ UNCHANGED newsVars

\* await asyncio.sleep(60); continue
BackoffSleep ==
    /\ pc = "backoff"
    /\ slept' = slept + Backoff
    /\ pc' = "fetch"
    /\ cycleEnded' = "backoff"
    /\ UNCHANGED <<STREAM_KEY, items, i, video_segments, video, files,
                   playlist, stream, tried, rendered, attempted,
                   streamInvoked, calls, audio_file, returncode>>
    /\ UNCHANGED <<wrote, stages>>
    /\ UNCHANGED textVars
    /\ UNCHANGED newsVars
\* The manifest opened in append mode.
ManifestAppended(old, segments) == old \o segments

\* with open("playlist.txt", "w") as f: one line per element of
\* video_segments; mode "w" truncates what the file held.
ManifestLines(old, segments) == segments

\* The manifest write; an OSError of open or write is not caught.
WriteManifest ==
    /\ pc = "write"
    /\ \E raised \in BOOLEAN :
         IF raised
           THEN /\ pc' = "crashed"
                /\ UNCHANGED playlist
           ELSE /\ pc' = "launch"
                /\ playlist' = [exists |-> TRUE,
                                lines |-> ManifestLines(playlist.lines,
                                                        video_segments)]
    /\ UNCHANGED <<STREAM_KEY, items, i, video_segments, video, files, stream,
                   tried, rendered, attempted, slept, streamInvoked,
                   cycleEnded, calls, audio_file, returncode>>
    /\ UNCHANGED <<wrote, stages>>
    /\ UNCHANGED textVars
    /\ UNCHANGED newsVars

\* subprocess.run(stream_cmd) starts the push process; an OSError of the
\* launch is not caught.
StreamLaunch ==
    /\ pc = "launch"
    /\ streamInvoked' = TRUE
    /\ calls' = calls \cup {"stream"}
    /\ \E raised \in BOOLEAN :
         IF raised
           THEN /\ pc' = "crashed"
                /\ UNCHANGED stream
           ELSE /\ pc' = "stream_wait"
                /\ stream' = "running"
    /\ UNCHANGED <<STREAM_KEY, items, i, video_segments, video, files,
                   playlist, tried, rendered, attempted, slept, cycleEnded,
                   audio_file, returncode>>
    /\ UNCHANGED <<wrote, stages>>
    /\ UNCHANGED textVars
    /\ UNCHANGED newsVars

\* How the push process can have exited.
Exited == {"exhausted", "error", "killed"}

\* The push process exits: the playlist is exhausted, it fails, or it is
\* killed from outside.
StreamExit ==
    /\ stream = "running"
    /\ \E r \in Exited : stream' = r
    /\ UNCHANGED <<STREAM_KEY, pc, items, i, video_segments, video, files,
                   playlist, tried, rendered, attempted, slept, streamInvoked,
                   cycleEnded, calls, audio_file, returncode>>
    /\ UNCHANGED <<wrote, stages>>
    /\ UNCHANGED textVars
    /\ UNCHANGED newsVars

\* The push started without waiting for it (Popen for run).
RunReturnsAtOnce == TRUE

\* subprocess.run waits for the process it started (no timeout is given).
RunReturns == stream \in Exited

\* subprocess.run returns; the exit status is not inspected.
StreamReturn ==
    /\ pc = "stream_wait"
    /\ RunReturns
    /\ pc' = "cleanup"
    /\ stream' = IF stream \in Exited THEN "none" ELSE stream
    /\ UNCHANGED <<STREAM_KEY, items, i, video_segments, video, files,
                   playlist, tried, rendered, attempted, slept, streamInvoked,
                   cycleEnded, calls, audio_file, returncode>>
    /\ UNCHANGED <<wrote, stages>>
    /\ UNCHANGED textVars
    /\ UNCHANGED newsVars

\* for f in os.listdir(): remove the .mp4, .mp3 and .jpg files; a failing
\* os.remove is swallowed (the file stays), a failing os.listdir is not.
Cleanup ==
    /\ pc = "cleanup"
    /\ \E raised \in BOOLEAN :
         IF raised
           THEN /\ pc' = "crashed"
                /\ UNCHANGED <<files, cycleEnded>>
           ELSE \E kept \in SUBSET Transient :
                  /\ Cardinality(kept) <= MaxKept
                  /\ files' = [p \in Paths |->
                                 IF p \in kept THEN files[p] ELSE NoFile]
                  /\ pc' = "fetch"
                  /\ cycleEnded' = "cleanup"
    /\ UNCHANGED <<STREAM_KEY, items, i, video_segments, video, playlist,
                   stream, tried, rendered, attempted, slept, streamInvoked,
                   calls, audio_file, returncode>>
    /\ UNCHANGED <<wrote, stages>>
    /\ UNCHANGED textVars
    /\ UNCHANGED newsVars

Next ==
    \/ Start
    \/ GetNews
    \/ ForNext
    \/ Translate
    \/ Tts1
    \/ Tts2
    \/ Tts3
    \/ CheckAudio
    \/ Download
    \/ Probe
    \/ Encode
    \/ AppendVideo
    \/ CooldownSleep
    \/ CheckSegments
    \/ BackoffSleep
    \/ WriteManifest
    \/ StreamLaunch
    \/ StreamExit
    \/ StreamReturn
    \/ Cleanup

Spec == Init /\ [][Next]_vars
\* ----------------------------------- the Translator step on its own
\* Every provider result against every title.
InitText ==
    /\ STREAM_KEY = TRUE
    /\ pc = "text_in"
    /\ items = 0
    /\ i = 0
    /\ video_segments = <<>>
    /\ video = None
    /\ files = NoFiles
    /\ playlist = [exists |-> FALSE, lines |-> <<>>]
    /\ stream = "none"
    /\ tried = <<>>
    /\ rendered = <<>>
    /\ attempted = <<>>
    /\ slept = 0
    /\ streamInvoked = FALSE
    /\ cycleEnded = "no"
    /\ calls = {}
    /\ audio_file = None
    /\ returncode = None
    /\ wrote = FALSE
    /\ stages = <<>>
    /\ title \in Titles
    /\ provider \in Texts \cup {NoText}
    /\ translated = <<>>
    /\ script = <<>>
    /\ NewsIdle

\* Lines 91-94 of generate_assets on the chosen inputs.
ApplyTranslator ==
    /\ pc = "text_in"
    /\ translated' = TranslatorStep(provider, title)
    /\ pc' = "text_out"
    /\ UNCHANGED <<STREAM_KEY, items, i, video_segments, video, files,
                   playlist, stream, tried, rendered, attempted, slept,
                   streamInvoked, cycleEnded, calls, audio_file, returncode,
                   wrote, stages, title, provider, script>>
    /\ UNCHANGED newsVars

NextText == ApplyTranslator

SpecText == InitText /\ [][NextText]_vars
\* ------------------------------------------------------------ claims

\* C1: with no stream credential broadcast_loop returns at once: it never
\* leaves the start/returned positions, so no cycle runs, no external call
\* (feed, translation, synthesis, image, probe, encode, stream) is made, no
\* file is written and nothing is retried.
C1_NoCredentialNoWork ==
    ~STREAM_KEY =>
        /\ pc \in {"start", "returned"}
        /\ calls = {}
        /\ attempted = <<>>
        /\ tried = <<>>
        /\ stages = <<>>
        /\ ~streamInvoked
        /\ stream = "none"
        /\ files = NoFiles

C1_Witness == ~STREAM_KEY /\ pc = "returned"

\* A cycle is over: the loop is back at the feed fetch, or an exception
\* ended broadcast_loop inside the cycle.
CycleOver ==
    \/ pc = "fetch" /\ cycleEnded # "no"
    \/ pc = "crashed" /\ "feed" \in calls

\* C2: in every cycle the publisher is invoked iff at least one segment was
\* rendered (and then the playlist is not empty); a cycle with no rendered
\* segment does not invoke it and ends with exactly one back-off of 60.
C2_PublishIffRendered ==
    /\ streamInvoked => rendered # <<>> /\ playlist.lines # <<>>
    /\ CycleOver =>
         /\ streamInvoked <=> rendered # <<>>
         /\ rendered = <<>> => slept = Backoff /\ cycleEnded = "backoff"

\* The indices of s are strictly increasing.
Increasing(s) == \A a, b \in 1 .. Len(s) : a < b => s[a] < s[b]

\* C3: the manifest handed to the publisher is exactly the items of this
\* cycle whose segment rendered, once each, in the order they were fetched
\* and processed; nothing of a failed item or an earlier cycle is in it.
C3_ManifestIsRendered ==
    pc \in {"launch", "stream_wait"} =>
        /\ playlist.exists
        /\ playlist.lines = rendered
        /\ Increasing(playlist.lines)
        /\ \A k \in 1 .. Len(playlist.lines) :
             playlist.lines[k] \in 0 .. (items - 1)
        /\ attempted = [k \in 1 .. items |-> k - 1]

C3_Witness ==
    /\ pc = "launch"
    /\ attempted = <<0, 1>>
    /\ playlist.lines = <<1>>

\* C4: the engines are tried in the order 1, 2, 3; an engine is tried only
\* after every earlier one failed; generate_audio_with_fallback returns a
\* file iff the last engine tried succeeded, and None only after all three
\* failed.
C4_FallbackChain ==
    /\ \A k \in 1 .. Len(tried) : tried[k].engine = k
    /\ \A k \in 1 .. (Len(tried) - 1) : tried[k].failed
    /\ pc = "tts2" => Len(tried) = 1
    /\ pc = "tts3" => Len(tried) = 2
    /\ pc \in {"audio", "download", "probe", "encode"} =>
         /\ Len(tried) \in 1 .. 3
         /\ audio_file # None <=> ~tried[Len(tried)].failed
         /\ audio_file = None => Len(tried) = 3
         /\ audio_file # None => audio_file = i

C4_Witness ==
    /\ pc = "audio"
    /\ Len(tried) = 3
    /\ audio_file # None

\* C5: generate_assets returns a segment exactly when the encode exited
\* with 0 and left an output of more than 1000 bytes, and every line of the
\* manifest given to the publisher names such a file.
C5_RenderCriterion ==
    /\ pc = "ret" =>
         /\ video \in {None, i}
         /\ video # None =>
              /\ returncode = 0
              /\ files[Path("mp4", i)] # NoFile
              /\ files[Path("mp4", i)] > VideoMinSize
    /\ pc \in {"launch", "stream_wait"} =>
         \A k \in 1 .. Len(playlist.lines) :
             /\ files[Path("mp4", playlist.lines[k])] # NoFile
             /\ files[Path("mp4", playlist.lines[k])] > VideoMinSize

C5_Witness ==
    /\ pc = "ret"
    /\ video = None
    /\ returncode = 1
    /\ files[Path("mp4", i)] = VideoMinSize + 1

\* C6: no exception escapes the main loop: broadcast_loop never ends inside
\* a cycle.
C6_NoExceptionEscapes == ~(pc = "crashed" /\ "feed" \in calls)

\* C7: while the stream push process runs broadcast_loop waits in
\* subprocess.run: cleanup and the next fetch have not begun, and every
\* file the manifest names exists.
C7_PublishBlocks ==
    stream = "running" =>
        /\ pc = "stream_wait"
        /\ \A k \in 1 .. Len(playlist.lines) :
             files[Path("mp4", playlist.lines[k])] # NoFile

C7_Witness ==
    /\ pc = "stream_wait"
    /\ stream = "killed"
    /\ playlist.lines = <<0, 1>>

\* C8: when a feed fetch begins no audio, image or segment file of an
\* earlier cycle exists.
C8_NoTransientAtFetch == pc = "fetch" => Transient = {}

\* C9: when the pipeline of an item other than the first starts, the
\* cooldown has elapsed since the previous item's pipeline ended.
C9_CooldownBetweenItems == (pc = "translate" /\ i > 0) => slept = Cooldown

\* The provider returned no text, empty text or fewer than 5 characters.
Degenerate(result) ==
    result = NoText \/ result = <<>> \/ Len(result) < MinTranslatedLen

\* The same, counting the characters left after stripping whitespace.
DegenerateStripped(result) ==
    result = NoText \/ result = <<>>
    \/ Len(Strip(result)) < MinTranslatedLen

\* C10 as stated: the text passed on is never empty and never shorter than 5
\* characters, and the title is substituted for a degenerate result.
C10_NeverShort ==
    pc = "text_out" =>
        /\ translated # <<>>
        /\ Len(translated) >= MinTranslatedLen
        /\ Degenerate(provider) => translated = title

\* C10 amended: the text passed on is never empty; for an absent, empty or
\* under-5-character (after stripping) result it is the title verbatim, so
\* as short as the title is; otherwise it is the provider's text unchanged.
C10_TitleSubstituted ==
    pc = "text_out" =>
        /\ translated # <<>>
        /\ translated # NoText
        /\ DegenerateStripped(provider) => translated = title
        /\ ~DegenerateStripped(provider) =>
             /\ translated = provider
             /\ Len(translated) >= MinTranslatedLen

C10_Witness ==
    /\ pc = "text_out"
    /\ provider = <<"a", "a">>
    /\ title = <<"a">>
    /\ translated = title
\* ------------------------------------------- claims on the main loop

\* The for loop over this cycle's items has ended.
LoopDone ==
    \/ pc \in {"check", "backoff", "write", "launch", "stream_wait",
               "cleanup"}
    \/ CycleOver

\* C13: every item the fetch returned is attempted exactly once, in order,
\* however many earlier items failed, and a failed item takes nothing else
\* out of the playlist: the segments kept are exactly those returned.
C13_EveryItemAttempted ==
    /\ LoopDone => attempted = [k \in 1 .. items |-> k - 1]
    /\ \A k \in 1 .. Len(attempted) : attempted[k] = k - 1
    /\ pc \in {"for", "check"} => video_segments = rendered
    /\ Len(attempted) <= items

C13_Witness ==
    /\ pc = "check"
    /\ attempted = <<0, 1>>
    /\ rendered = <<>>

\* C16: the file generate_audio_with_fallback returns was written by the
\* engine attempt that succeeded, not left at outfile by an earlier attempt,
\* item or cycle.
C16_AudioIsFresh == (pc = "audio" /\ audio_file # None) => wrote

\* C17: an item whose image download raised or was answered with an error
\* response yields no segment.
C17_FailedDownloadFailsItem ==
    pc = "ret" =>
        \A k \in 1 .. Len(stages) :
            (stages[k].stage = "image"
             /\ stages[k].result \in {"raise", "error_response"})
                => video = None

\* The stages of generate_assets, in the order of the code.
StageOrder == <<"translate", "tts", "image", "ffprobe", "ffmpeg">>

\* The stage returned something for the next stage to use.
Passed(s) == s.result \notin {"raise", "failed"}

C19_LoopRunsOn ==
    STREAM_KEY =>
        /\ pc # "returned"
        /\ ~(pc = "crashed" /\ "feed" \in calls)
\* --------------------------------------- the script step on its own
\* The loop variables, not in use.
LoopIdle ==
    /\ STREAM_KEY = TRUE
    /\ items = 0
    /\ i = 0
    /\ video_segments = <<>>
    /\ video = None
    /\ files = NoFiles
    /\ playlist = [exists |-> FALSE, lines |-> <<>>]
    /\ stream = "none"
    /\ tried = <<>>
    /\ rendered = <<>>
    /\ attempted = <<>>
    /\ slept = 0
    /\ streamInvoked = FALSE
    /\ cycleEnded = "no"
    /\ calls = {}
    /\ audio_file = None
    /\ returncode = None
    /\ wrote = FALSE
    /\ stages = <<>>

InitScript ==
    /\ LoopIdle
    /\ NewsIdle
    /\ pc = "script_in"
    /\ title = <<>>
    /\ provider = <<>>
    /\ translated \in ScriptInputs
    /\ script = <<>>

\* Line 96 of generate_assets on the chosen text.
MakeScript ==
    /\ pc = "script_in"
    /\ script' = Script(translated)
    /\ pc' = "script_out"
    /\ UNCHANGED <<STREAM_KEY, items, i, video_segments, video, files,
                   playlist, stream, tried, rendered, attempted, slept,
                   streamInvoked, cycleEnded, calls, audio_file, returncode,
                   wrote, stages, title, provider, translated>>
    /\ UNCHANGED newsVars

NextScript == MakeScript

SpecScript == InitScript /\ [][NextScript]_vars

\* The script without its last character.
ScriptBody == SubSeq(script, 1, Len(script) - 1)

\* t has no space at either end and no two spaces in a row.
SingleSpaced(t) ==
    /\ t = Strip(t)
    /\ \A k \in 1 .. (Len(t) - 1) : ~(t[k] = " " /\ t[k + 1] = " ")

\* t ends with a sentence-ending mark.
Terminated(t) == t # <<>> /\ t[Len(t)] = "."

\* C11 as stated: the script is the first 80 words of the text, and a
\* period is appended only when the text does not already end with a
\* sentence-ending mark.
C11_PeriodOnlyIfNeeded ==
    pc = "script_out" =>
        LET first == Take(Split(translated), WordLimit)
        IN /\ Terminated(script)
           /\ Terminated(Join(first)) => Split(script) = first
           /\ ~Terminated(Join(first)) => Split(ScriptBody) = first

\* C11 amended: the script is the first 80 words of the text joined by
\* single spaces, followed by one period that is always appended, also to
\* a text that already ends with a sentence-ending mark.
C11_PeriodAlways ==
    pc = "script_out" =>
        /\ Terminated(script)
        /\ SingleSpaced(ScriptBody)
        /\ Split(ScriptBody) = Take(Split(translated), WordLimit)
        /\ Len(Split(ScriptBody)) <= WordLimit

C11_Witness ==
    /\ pc = "script_out"
    /\ translated = <<"a", " ", "a", ".">>
    /\ script = <<"a", " ", "a", ".", ".">>

\* The word limit at work: a text of 81 words gives a script of 80.
C11_WitnessLimit ==
    /\ pc = "script_out"
    /\ Len(Split(translated)) = WordLimit + 1
    /\ Len(Split(ScriptBody)) = WordLimit
\* ------------------------------------------------------- get_news
\* A link of an entry: whether its type contains "image", and whether it
\* has an href (link.get('href') is None otherwise).
Links == [image : BOOLEAN, href : BOOLEAN]
LinkSeqs == UNION {[1 .. n -> Links] : n \in 0 .. MaxLinks}

\* A feed entry as get_news reads it.  title, summary: the attribute is
\* absent, an empty string or a text.  media: 'media_content' is not in the
\* entry, its first element has a url, has an empty url, or there is no
\* first element or no 'url' key in it ("broken").  haslinks: 'links' is
\* in the entry; links: the list entry.links.
Entries ==
    {e \in [title : {"absent", "empty", "text"},
            summary : {"absent", "empty", "text"},
            media : {"absent", "url", "empty", "broken"},
            haslinks : BOOLEAN,
            links : LinkSeqs] : ~e.haslinks => e.links = <<>>}

\* The values of img_url: the url of the media content, the href of link
\* k, the placeholder, or nothing (None or an empty string).
Img(src, k) == [src |-> src, k |-> k]
NoImg == Img("none", 0)

\* The for loop over entry.links: img_url is set at every link whose type
\* contains "image", so the last such link decides; "none" when no link
\* matched or the deciding link has no href.
RECURSIVE LinkImage(_, _, _)
LinkImage(links, k, img_url) ==
    IF k > Len(links) THEN img_url
    ELSE LinkImage(links, k + 1,
                   IF links[k].image
                     THEN (IF links[k].href THEN Img("link", k) ELSE NoImg)
                     ELSE img_url)

\* Lines 28-37: media_content first, else the links, else the placeholder.
ImageOf(e) ==
    LET img_url ==
          IF e.media # "absent"
            THEN (IF e.media = "url" THEN Img("media", 0) ELSE NoImg)
            ELSE IF e.haslinks
                   THEN LinkImage(e.links, 1, NoImg)
                   ELSE NoImg
    IN IF img_url = NoImg THEN Img("placeholder", 0) ELSE img_url

\* entry.title or "Habari Mpya"
TitleOf(e) == IF e.title = "text" THEN "text" ELSE "placeholder"

\* entry.summary or entry.title or "Maelezo hayapatikani kwa sasa."
SummaryOf(e) ==
    IF e.summary = "text" THEN "text"
    ELSE IF e.title = "text" THEN "title"
    ELSE "placeholder"

\* Reading the entry raises: media_content[0]['url'] fails, or entry.title
\* or entry.summary is read of an entry that has no such attribute.
EntryRaises(e) ==
    e.media = "broken" \/ e.title = "absent" \/ e.summary = "absent"

\* Lines 39-43: the article appended for the entry.
MakeItem(e) ==
    [title |-> TitleOf(e), summary |-> SummaryOf(e), image |-> ImageOf(e)]

\* The except clause placed around the whole for loop over RSS_FEEDS.
AfterFeedErrorAbort(f) == NumFeeds + 1

\* except Exception inside the for loop: the next url is taken.
AfterFeedError(f) == f + 1

\* Articles appended so far for feed f.
CountOf(f) == Cardinality({k \in 1 .. Len(articles) : articles[k][1] = f})

InitNews ==
    /\ LoopIdle
    /\ TextIdle
    /\ pc = "news_feed"
    /\ feed = 1
    /\ remaining = 0
    /\ articles = <<>>
    /\ fetched = <<>>
    /\ entry = NoEntry
    /\ item = NoItem

\* feed = feedparser.parse(url); feed.entries[:6]
ParseFeed ==
    /\ pc = "news_feed"
    /\ feed <= NumFeeds
    /\ fetched' = Append(fetched, [feed |-> feed, failed |-> FALSE])
    /\ \E raised \in BOOLEAN, n \in 0 .. MaxEntries :
         IF raised
           THEN /\ pc' = "news_except"
                /\ UNCHANGED remaining
           ELSE /\ remaining' = IF n < EntryLimit THEN n ELSE EntryLimit
                /\ pc' = "news_entry"
    /\ UNCHANGED <<feed, articles, entry, item>>
    /\ UNCHANGED <<STREAM_KEY, items, i, video_segments, video, files,
                   playlist, stream, tried, rendered, attempted, slept,
                   streamInvoked, cycleEnded, calls, audio_file, returncode,
                   wrote, stages>>
    /\ UNCHANGED textVars

\* The body of the for loop over the entries: the image is chosen and the
\* article appended, or an exception leaves the try block of this feed.
ReadEntry ==
    /\ pc = "news_entry"
    /\ remaining > 0
    /\ \E e \in Entries :
         /\ entry' = e
         /\ IF EntryRaises(e)
              THEN /\ item' = NoItem
                   /\ pc' = "news_except"
                   /\ UNCHANGED <<articles, remaining>>
              ELSE /\ item' = MakeItem(e)
                   /\ articles' = Append(articles, <<feed, CountOf(feed) + 1>>)
                   /\ remaining' = remaining - 1
                   /\ pc' = "news_item"
    /\ UNCHANGED <<feed, fetched>>
    /\ UNCHANGED <<STREAM_KEY, items, i, video_segments, video, files,
                   playlist, stream, tried, rendered, attempted, slept,
                   streamInvoked, cycleEnded, calls, audio_file, returncode,
                   wrote, stages>>
    /\ UNCHANGED textVars

\* The for loop takes the next entry.
NextEntry ==
    /\ pc = "news_item"
    /\ pc' = "news_entry"
    /\ entry' = NoEntry
    /\ item' = NoItem
    /\ UNCHANGED <<feed, remaining, articles, fetched>>
    /\ UNCHANGED <<STREAM_KEY, items, i, video_segments, video, files,
                   playlist, stream, tried, rendered, attempted, slept,
                   streamInvoked, cycleEnded, calls, audio_file, returncode,
                   wrote, stages>>
    /\ UNCHANGED textVars

\* except Exception as e: print(...); the rest of the feed is not read.
FeedError ==
    /\ pc = "news_except"
    /\ feed' = AfterFeedError(feed)
    /\ remaining' = 0
    /\ pc' = "news_feed"
    /\ entry' = NoEntry
    /\ item' = NoItem
    /\ fetched' = [fetched EXCEPT ![Len(fetched)].failed = TRUE]
    /\ UNCHANGED articles
    /\ UNCHANGED <<STREAM_KEY, items, i, video_segments, video, files,
                   playlist, stream, tried, rendered, attempted, slept,
                   streamInvoked, cycleEnded, calls, audio_file, returncode,
                   wrote, stages>>
    /\ UNCHANGED textVars

\* The entries of the feed are exhausted: the next url is taken.
EndFeed ==
    /\ pc = "news_entry"
    /\ remaining = 0
    /\ feed' = feed + 1
    /\ pc' = "news_feed"
    /\ UNCHANGED <<remaining, articles, fetched, entry, item>>
    /\ UNCHANGED <<STREAM_KEY, items, i, video_segments, video, files,
                   playlist, stream, tried, rendered, attempted, slept,
                   streamInvoked, cycleEnded, calls, audio_file, returncode,
                   wrote, stages>>
    /\ UNCHANGED textVars

\* return articles
ReturnNews ==
    /\ pc = "news_feed"
    /\ feed > NumFeeds
    /\ pc' = "news_done"
    /\ UNCHANGED newsVars
    /\ UNCHANGED <<STREAM_KEY, items, i, video_segments, video, files,
                   playlist, stream, tried, rendered, attempted, slept,
                   streamInvoked, cycleEnded, calls, audio_file, returncode,
                   wrote, stages>>
    /\ UNCHANGED textVars

NextNews ==
    \/ ParseFeed
    \/ ReadEntry
    \/ NextEntry
    \/ FeedError
    \/ EndFeed
    \/ ReturnNews

SpecNews == InitNews /\ [][NextNews]_vars

\* ------------------------------------------------- claims on get_news
IsPrefix(s, t) == Len(s) <= Len(t) /\ SubSeq(t, 1, Len(s)) = s

\* C12: a failure while fetching or parsing one feed does not abort
\* get_news: when it returns, every feed of the list has been fetched, in
\* order, and no article collected before the failure is ever dropped.
C12_FeedFailureContained ==
    [][/\ pc' = "news_done" =>
            /\ Len(fetched') = NumFeeds
            /\ \A k \in 1 .. NumFeeds : fetched'[k].feed = k
       /\ IsPrefix(articles, articles')]_vars

\* The first feed gave one article and then failed; the second feed was
\* fetched all the same and both articles are returned.
C12_Witness ==
    /\ pc = "news_done"
    /\ fetched = <<[feed |-> 1, failed |-> TRUE],
                   [feed |-> 2, failed |-> FALSE]>>
    /\ articles = <<<<1, 1>>, <<2, 1>>>>

\* The positions of the links of e whose type contains "image".
ImageLinks(e) == {k \in 1 .. Len(e.links) : e.links[k].image}
FirstImageLink(e) ==
    CHOOSE k \in ImageLinks(e) : \A j \in ImageLinks(e) : k <= j

\* C14: the image of an item is the media-content url if present, else the
\* first link whose type contains "image", else the placeholder; it is
\* never empty, and an entry with no image attachment gets the placeholder.
C14_ImageOrder ==
    pc = "news_item" =>
      /\ item.image # NoImg
      /\ entry.media = "url" => item.image = Img("media", 0)
      /\ (/\ entry.media = "absent"
          /\ ImageLinks(entry) # {}
          /\ entry.links[FirstImageLink(entry)].href)
           => item.image = Img("link", FirstImageLink(entry))
      /\ (entry.media = "absent" /\ ImageLinks(entry) = {})
           => item.image = Img("placeholder", 0)

\* C15: an entry whose title or summary is absent or empty still yields an
\* item, with the placeholder title, respectively the placeholder summary,
\* and no item has an empty title or summary.
C15_DefaultsForMissingText ==
    (pc \in {"news_item", "news_except"} /\ entry # NoEntry
       /\ entry.media # "broken") =>
      /\ pc = "news_item"
      /\ item.title = IF entry.title = "text" THEN "text" ELSE "placeholder"
      /\ item.summary =
           IF entry.summary = "text" THEN "text" ELSE "placeholder"
====
